---- MODULE Spec2Model ----
(***************************************************************************)
(* Model of doc/examples/applications/plot_3d_image_processing.py: a       *)
(* linear tutorial script over one 3D image `data`, its exposure           *)
(* transforms, its montage helper and its slider-driven slice explorer.    *)
(*                                                                         *)
(* Intensities are fixed-point: the integer k stands for the float         *)
(* k / Scale, so 0 is 0.0 and Scale is 1.0; a result that is not on the    *)
(* grid is rounded down to it.  A 3D array is a record                     *)
(*   [shape |-> <<n_plane, n_row, n_col>>, pix |-> [0..n_plane-1 -> k]]    *)
(* where pix[p] is the intensity the model follows in plane p (one pixel   *)
(* per plane).  Spacings are exact rationals <<numerator, denominator>>.   *)
(***************************************************************************)
EXTENDS Integers, Sequences, FiniteSets, TLC

VARIABLES
    pc,                \* position of the script (the statement to run next)
    data,              \* line 58
    original_spacing,  \* line 65
    rescaled_spacing,  \* line 68
    spacing,           \* line 71
    printed,           \* what print() has written, in order
    gamma_low,         \* line 243
    gamma_high,        \* line 246
    equalized_data,    \* line 267
    vrange,            \* line 301: <<vmin, vmax>>
    clipped_data,      \* line 303
    widgets,           \* the sliders made by explore_slices, in creation order
    shown              \* the figure drawn last

vars == <<pc, data, original_spacing, rescaled_spacing, spacing, printed,
          gamma_low, gamma_high, equalized_data, vrange, clipped_data,
          widgets, shown>>

(***************************************************************************)
(* Bounds of the model                                                     *)
(***************************************************************************)
Scale == 6      \* intensity grid: k in 0..Scale stands for k / Scale
MaxLen == 3     \* planes of an input array of the transforms' specification
MaxStep == 3    \* largest montage step tried
MaxPlanes == 7  \* planes of the longest array given to the montage

Levels == 0 .. Scale

(***************************************************************************)
(* Small helpers                                                           *)
(***************************************************************************)
Min2(a, b) == IF a <= b THEN a ELSE b
Max2(a, b) == IF a >= b THEN a ELSE b
Abs(a) == IF a >= 0 THEN a ELSE 0 - a

\* floor(a / b) for b # 0 of either sign
FloorDiv(a, b) == IF b > 0 THEN a \div b ELSE (0 - a) \div (0 - b)

RECURSIVE Pow(_, _)
Pow(b, e) == IF e = 0 THEN 1 ELSE b * Pow(b, e - 1)

RECURSIVE GCD(_, _)
GCD(a, b) == IF b = 0 THEN a ELSE GCD(b, a % b)

\* Python's None for a name that is not bound yet
NoArr == [shape |-> <<>>, pix |-> <<>>]
IsArr(im) == im.shape # <<>>

Len3(im) == im.shape[1]                     \* len(im)
Planes(im) == DOMAIN im.pix
Values(im) == {im.pix[p] : p \in Planes(im)}
ArrMin(im) == CHOOSE v \in Values(im) : \A u \in Values(im) : v <= u
ArrMax(im) == CHOOSE v \in Values(im) : \A u \in Values(im) : v >= u
MkArr(shape, f) == [shape |-> shape, pix |-> f]

(***************************************************************************)
(* Spacing arithmetic (lines 64-71)                                        *)
(***************************************************************************)
Rat(n, d) == LET g == GCD(Abs(n), Abs(d)) IN
             IF g = 0 THEN <<n, d>> ELSE <<n \div g, d \div g>>
RatMulInt(r, k) == Rat(r[1] * k, r[2])
RatDiv(a, b) == Rat(a[1] * b[2], a[2] * b[1])
RatEq(a, b) == a[1] * b[2] = b[1] * a[2]
RatPos(a) == a[1] > 0 /\ a[2] > 0

MicroscopeSpacing == <<Rat(29, 100), Rat(65, 1000), Rat(65, 1000)>>
Downsampling == <<1, 4, 4>>
RescaleSpacing(sp) == [i \in 1..3 |-> RatMulInt(sp[i], Downsampling[i])]
NormalizeSpacing_ByPlane(sp) == [i \in 1..3 |-> RatDiv(sp[i], sp[1])]
NormalizeSpacing(sp) == [i \in 1..3 |-> RatDiv(sp[i], sp[3])]

(***************************************************************************)
(* ski.exposure.adjust_gamma: out = image ** gamma on float images         *)
(***************************************************************************)
\* floor(Scale * (k / Scale) ^ (g[1] / g[2]))
PowFix(k, g) ==
    CHOOSE y \in Levels :
        /\ Pow(y, g[2]) * Pow(Scale, g[1]) <= Pow(k, g[1]) * Pow(Scale, g[2])
        /\ Pow(y + 1, g[2]) * Pow(Scale, g[1]) > Pow(k, g[1]) * Pow(Scale, g[2])

adjust_gamma(im, g) ==
    LET map == [k \in Values(im) |-> PowFix(k, g)]
    IN  MkArr(im.shape, [p \in Planes(im) |-> map[im.pix[p]]])

gamma_high_val == <<3, 2>>
gamma_low_val_Darkening == <<3, 2>>
gamma_low_val == <<1, 2>>

(***************************************************************************)
(* ski.exposure.equalize_hist: np.histogram over NBins bins spanning       *)
(* (min, max), the normalised cumulative sum, and np.interp of every pixel *)
(* at the bin centres.  Positions are kept in half grid units.             *)
(***************************************************************************)
NBins == 256

\* np.histogram's range, doubled: <<lower edge, width>>; a constant image is
\* binned over (min - 0.5, max + 0.5)
HistRange2(im) ==
    LET mn == ArrMin(im)
        mx == ArrMax(im)
    IN  IF mn < mx THEN <<2 * mn, 2 * (mx - mn)>> ELSE <<2 * mn - Scale, 2 * Scale>>

\* the bin a pixel of intensity k falls in (the last bin is closed)
BinOf(r, k) == Min2(NBins - 1, ((2 * k - r[1]) * NBins) \div r[2])

\* img_cdf[i] * size: the pixels in bins 0..i (bin[k] is the bin of intensity k)
CdfCount(im, bin, i) == Cardinality({p \in Planes(im) : bin[im.pix[p]] <= i})

\* np.interp(k, bin_centers, img_cdf), rounded down to the grid
InterpCdf(im, r, bin, k) ==
    LET n == Cardinality(Planes(im))
        w == r[2]
        A == 2 * NBins * (2 * k - r[1])          \* centre i is at (2i + 1) * w
        i == (A - w) \div (2 * w)
        ci == CdfCount(im, bin, i)
    IN  IF A <= w THEN (Scale * CdfCount(im, bin, 0)) \div n
        ELSE IF A >= (2 * NBins - 1) * w
        THEN (Scale * CdfCount(im, bin, NBins - 1)) \div n
        ELSE (Scale * (ci * 2 * w + (A - (2 * i + 1) * w) * (CdfCount(im, bin, i + 1) - ci)))
             \div (2 * w * n)

equalize_hist(im) ==
    LET r == HistRange2(im)
        bin == [k \in Values(im) |-> BinOf(r, k)]
        map == [k \in Values(im) |-> InterpCdf(im, r, bin, k)]
    IN  MkArr(im.shape, [p \in Planes(im) |-> map[im.pix[p]]])

(***************************************************************************)
(* np.percentile (linear interpolation between order statistics); the      *)
(* percentile q is the fraction q[1] / q[2], the result a rational         *)
(***************************************************************************)
CountLe(im, v) == Cardinality({p \in Planes(im) : im.pix[p] <= v})
\* the j-th smallest pixel, j counted from 0
Kth(im, j) == CHOOSE v \in Values(im) :
                  /\ CountLe(im, v) >= j + 1
                  /\ \A u \in Values(im) : u < v => CountLe(im, u) < j + 1

percentile(im, q) ==
    LET r == q[1] * (Cardinality(Planes(im)) - 1)
        lo == r \div q[2]
        rem == r % q[2]
    IN  IF rem = 0 THEN <<Kth(im, lo), 1>>
        ELSE <<Kth(im, lo) * q[2] + rem * (Kth(im, lo + 1) - Kth(im, lo)), q[2]>>

clip_q_swapped == <<<<199, 200>>, <<1, 200>>>>
clip_q == <<<<1, 200>>, <<199, 200>>>>

(***************************************************************************)
(* ski.exposure.rescale_intensity(image, in_range, out_range=np.float32):  *)
(* clip to in_range, then map in_range linearly onto the float range       *)
(***************************************************************************)
rescale_intensity(im, in_range) ==
    LET D == in_range[1][2] * in_range[2][2]
        imin == in_range[1][1] * in_range[2][2]
        imax == in_range[2][1] * in_range[1][2]
        omin == IF imin >= 0 THEN 0 ELSE 0 - Scale
        omax == Scale
        clip(k) == Min2(Max2(k * D, imin), imax)
        map == [k \in Values(im) |->
                   IF imin # imax
                   THEN FloorDiv((clip(k) - imin) * (omax - omin), imax - imin) + omin
                   ELSE Min2(Max2(clip(k), omin * D), omax * D) \div D]
    IN  MkArr(im.shape, [p \in Planes(im) |-> map[im.pix[p]]])

(***************************************************************************)
(* im3d[::step] and ski.util.montage: the tiles of the montage, row by row *)
(***************************************************************************)
RECURSIVE SliceFrom(_, _, _)
\* range(start, n, step)
SliceFrom(start, n, step) ==
    IF start >= n THEN <<>> ELSE <<start>> \o SliceFrom(start + step, n, step)

Subsample_FromOne(im, step) == SliceFrom(1, Len3(im), step)
Subsample(im, step) == SliceFrom(0, Len3(im), step)

montage(im, idx) == [i \in 1 .. Len(idx) |-> [plane |-> idx[i], image |-> im.pix[idx[i]]]]

(***************************************************************************)
(* Figures.  `shown` is the figure drawn last.                             *)
(***************************************************************************)
Fig(kind, widget, plane, step, tiles, image, marker, cube, lim) ==
    [kind |-> kind, widget |-> widget, plane |-> plane, step |-> step,
     tiles |-> tiles, image |-> image, marker |-> marker, cube |-> cube, lim |-> lim]
NoFig == Fig("none", 0, -1, 0, <<>>, -1, {}, {}, <<>>)
Plain(kind, plane, tiles) == Fig(kind, 0, plane, 0, tiles, -1, {}, {}, <<>>)

\* a[i] on the first axis of an array of n planes: the plane read, -1 for IndexError
PyIndex(n, i) == IF 0 <= i /\ i < n THEN i
                 ELSE IF 0 - n <= i /\ i < 0 THEN i + n
                 ELSE -1

\* the exception ax.imshow raises for an array of this shape ("none": it draws)
ImshowRaises(shape) ==
    IF Len(shape) = 2 \/ (Len(shape) = 3 /\ shape[3] \in {3, 4}) THEN "none"
    ELSE "TypeError"

\* the except clause of line 85
Caught_ValueError(exc) == exc = "ValueError"
Caught(exc) == exc = "TypeError"

\* display(im3d, step), lines 115-119
DefaultStep == 2
display(im3d, step) ==
    shown' = Fig("montage", 0, -1, step, montage(im3d, Subsample(im3d, step)),
                 -1, {}, {}, <<>>)

(***************************************************************************)
(* slice_in_3D(ax, i), lines 137-192                                       *)
(***************************************************************************)
UnitCube == {<<0, 0, 0>>, <<1, 0, 0>>, <<1, 1, 0>>, <<0, 1, 0>>,
             <<0, 0, 1>>, <<1, 0, 1>>, <<1, 1, 1>>, <<0, 1, 1>>}
UnitSquare == {<<0, 0, 0>>, <<0, 0, 1>>, <<0, 1, 1>>, <<0, 1, 0>>}
MarkerExtent_Half == <<60, 128, 128>>
MarkerExtent == <<60, 256, 256>>
XLim == 100

Scaled(pts, by) == {<<v[1] * by[1], v[2] * by[2], v[3] * by[3]>> : v \in pts}
\* Z = Z * data.shape, with the module-level `data`
CubeCorners == Scaled(UnitCube, data.shape)
\* verts * (60, 256, 256) + [i, 0, 0]
MarkerVerts(i) == {<<v[1] + i, v[2], v[3]>> : v \in Scaled(UnitSquare, MarkerExtent)}
\* the common axis limits of line 192 (margins of the automatic limits left out)
AxisLimits == <<0, Max2(XLim, Max2(data.shape[2], data.shape[3]))>>

(***************************************************************************)
(* explore_slices(data), lines 195-211                                     *)
(***************************************************************************)
InitialPlane == 34

\* plane=(0, N - 1)
SliderRange_ToN(N) == <<0, N>>
SliderRange(N) == <<0, N - 1>>

\* display_slice(plane) of the widget w, whose closure holds the array im
display_slice_Stale(w, im, plane) ==
    IF shown.kind = "slice" /\ PyIndex(Len3(im), shown.plane) >= 0
    THEN Fig("slice", w, plane, 0, <<>>, im.pix[PyIndex(Len3(im), shown.plane)],
             MarkerVerts(plane), CubeCorners, AxisLimits)
    ELSE Fig("slice", w, plane, 0, <<>>, im.pix[PyIndex(Len3(im), plane)],
             MarkerVerts(plane), CubeCorners, AxisLimits)
display_slice(w, im, plane) ==
    IF PyIndex(Len3(im), plane) < 0
    THEN Fig("error", w, plane, 0, <<>>, -1, {}, {}, <<>>)
    ELSE Fig("slice", w, plane, 0, <<>>, im.pix[PyIndex(Len3(im), plane)],
             MarkerVerts(plane), CubeCorners, AxisLimits)

explore_slices(im) ==
    LET r == SliderRange(Len3(im))
        w == Len(widgets) + 1
    IN  /\ widgets' = Append(widgets, [data |-> im, lo |-> r[1], hi |-> r[2],
                                       initial |-> InitialPlane])
        /\ shown' = display_slice(w, im, InitialPlane)

(***************************************************************************)
(* The statements of the script                                            *)
(***************************************************************************)
\* skimage.data.cells3d()[:, 1, :, :] has this shape
DataShape == <<60, 256, 256>>
\* the intensities tried for the planes of the sample image
DataLevels == {0, Scale \div 2, Scale}
Dataset == {MkArr(DataShape, [p \in 0 .. DataShape[1] - 1 |->
                                 IF p % 2 = 0 THEN a ELSE b]) : a, b \in DataLevels}

GammaPlane == 32

Init ==
    /\ pc = "load"
    /\ data = NoArr
    /\ original_spacing = <<>>
    /\ rescaled_spacing = <<>>
    /\ spacing = <<>>
    /\ printed = <<>>
    /\ gamma_low = NoArr
    /\ gamma_high = NoArr
    /\ equalized_data = NoArr
    /\ vrange = <<>>
    /\ clipped_data = NoArr
    /\ widgets = <<>>
    /\ shown = NoFig

\* lines 58-62
Load ==
    /\ pc = "load"
    /\ data' \in Dataset
    /\ printed' = printed \o <<[what |-> "shape", value |-> data'.shape],
                               [what |-> "range", value |-> <<ArrMin(data'), ArrMax(data')>>]>>
    /\ pc' = "spacing"
    /\ UNCHANGED <<original_spacing, rescaled_spacing, spacing, gamma_low, gamma_high,
                   equalized_data, vrange, clipped_data, widgets, shown>>

\* lines 65-75
Spacing ==
    /\ pc = "spacing"
    /\ original_spacing' = MicroscopeSpacing
    /\ rescaled_spacing' = RescaleSpacing(original_spacing')
    /\ spacing' = NormalizeSpacing(rescaled_spacing')
    /\ printed' = printed \o <<[what |-> "microscope spacing", value |-> original_spacing'],
                               [what |-> "rescaled spacing", value |-> rescaled_spacing'],
                               [what |-> "normalized spacing", value |-> spacing']>>
    /\ pc' = "try_imshow"
    /\ UNCHANGED <<data, gamma_low, gamma_high, equalized_data, vrange, clipped_data,
                   widgets, shown>>

\* lines 82-86
TryImshow ==
    /\ pc = "try_imshow"
    /\ LET exc == ImshowRaises(data.shape) IN
         IF exc = "none"
         THEN /\ shown' = Plain("image", -1, <<>>)
              /\ UNCHANGED printed
              /\ pc' = "planes"
         ELSE IF Caught(exc)
         THEN /\ printed' = Append(printed, [what |-> "Invalid shape", value |-> data.shape])
              /\ UNCHANGED shown
              /\ pc' = "planes"
         ELSE /\ UNCHANGED <<printed, shown>>
              /\ pc' = "error"
    /\ UNCHANGED <<data, original_spacing, rescaled_spacing, spacing, gamma_low, gamma_high,
                   equalized_data, vrange, clipped_data, widgets>>

\* lines 102-107 (of the three views the model follows the plane view)
ShowPlanes ==
    /\ pc = "planes"
    /\ LET mid == data.shape[1] \div 2 IN
         shown' = Plain("planes", mid, <<[plane |-> mid, image |-> data.pix[mid]]>>)
    /\ pc' = "montage"
    /\ UNCHANGED <<data, original_spacing, rescaled_spacing, spacing, printed, gamma_low,
                   gamma_high, equalized_data, vrange, clipped_data, widgets>>

\* line 122
MontageData ==
    /\ pc = "montage"
    /\ display(data, DefaultStep)
    /\ pc' = "explore"
    /\ UNCHANGED <<data, original_spacing, rescaled_spacing, spacing, printed, gamma_low,
                   gamma_high, equalized_data, vrange, clipped_data, widgets>>

\* line 214
ExploreData ==
    /\ pc = "explore"
    /\ explore_slices(data)
    /\ pc' = "gamma"
    /\ UNCHANGED <<data, original_spacing, rescaled_spacing, spacing, printed, gamma_low,
                   gamma_high, equalized_data, vrange, clipped_data>>

\* lines 242-246
StmtGamma ==
    /\ gamma_low' = adjust_gamma(data, gamma_low_val)
    /\ gamma_high' = adjust_gamma(data, gamma_high_val)

\* lines 242-256
Gamma ==
    /\ pc = "gamma"
    /\ StmtGamma
    /\ LET i == PyIndex(Len3(data), GammaPlane) IN
         IF i < 0
         THEN /\ pc' = "error"
              /\ UNCHANGED shown
         ELSE /\ pc' = "equalize"
              /\ shown' = Plain("gamma", i, <<[plane |-> i, image |-> data.pix[i]],
                                              [plane |-> i, image |-> gamma_low'.pix[i]],
                                              [plane |-> i, image |-> gamma_high'.pix[i]]>>)
    /\ UNCHANGED <<data, original_spacing, rescaled_spacing, spacing, printed,
                   equalized_data, vrange, clipped_data, widgets>>

\* line 267
StmtEqualize_AsGamma == equalized_data' = adjust_gamma(data, gamma_high_val)
StmtEqualize == equalized_data' = equalize_hist(data)

Equalize ==
    /\ pc = "equalize"
    /\ StmtEqualize
    /\ pc' = "montage_eq"
    /\ UNCHANGED <<data, original_spacing, rescaled_spacing, spacing, printed, gamma_low,
                   gamma_high, vrange, clipped_data, widgets, shown>>

\* line 269
MontageEqualized ==
    /\ pc = "montage_eq"
    /\ display(equalized_data, DefaultStep)
    /\ pc' = "explore_eq"
    /\ UNCHANGED <<data, original_spacing, rescaled_spacing, spacing, printed, gamma_low,
                   gamma_high, equalized_data, vrange, clipped_data, widgets>>

\* line 275
ExploreEqualized ==
    /\ pc = "explore_eq"
    /\ explore_slices(equalized_data)
    /\ pc' = "cdf"
    /\ UNCHANGED <<data, original_spacing, rescaled_spacing, spacing, printed, gamma_low,
                   gamma_high, equalized_data, vrange, clipped_data>>

\* lines 281-292: histograms and cumulative distributions of both arrays
PlotCdf ==
    /\ pc = "cdf"
    /\ shown' = Plain("cdf", -1,
                      <<[plane |-> -1, image |-> Cardinality(Planes(data))],
                        [plane |-> -1, image |-> Cardinality(Planes(equalized_data))]>>)
    /\ pc' = "clip"
    /\ UNCHANGED <<data, original_spacing, rescaled_spacing, spacing, printed, gamma_low,
                   gamma_high, equalized_data, vrange, clipped_data, widgets>>

\* lines 301-305
StmtClip_OfGammaLow ==
    /\ vrange' = <<percentile(data, clip_q[1]), percentile(data, clip_q[2])>>
    /\ clipped_data' = rescale_intensity(gamma_low, vrange')
StmtClip ==
    /\ vrange' = <<percentile(data, clip_q[1]), percentile(data, clip_q[2])>>
    /\ clipped_data' = rescale_intensity(data, vrange')

Clip ==
    /\ pc = "clip"
    /\ StmtClip
    /\ pc' = "montage_clip"
    /\ UNCHANGED <<data, original_spacing, rescaled_spacing, spacing, printed, gamma_low,
                   gamma_high, equalized_data, widgets, shown>>

\* line 307
MontageClipped ==
    /\ pc = "montage_clip"
    /\ display(clipped_data, DefaultStep)
    /\ pc' = "plotly"
    /\ UNCHANGED <<data, original_spacing, rescaled_spacing, spacing, printed, gamma_low,
                   gamma_high, equalized_data, vrange, clipped_data, widgets>>

\* lines 314-320: one animation frame per plane of data
Plotly ==
    /\ pc = "plotly"
    /\ shown' = Plain("plotly", 0, montage(data, Subsample(data, 1)))
    /\ pc' = "show"
    /\ UNCHANGED <<data, original_spacing, rescaled_spacing, spacing, printed, gamma_low,
                   gamma_high, equalized_data, vrange, clipped_data, widgets>>

\* line 322, the final statement
Finish ==
    /\ pc = "show"
    /\ pc' = "done"
    /\ UNCHANGED <<data, original_spacing, rescaled_spacing, spacing, printed, gamma_low,
                   gamma_high, equalized_data, vrange, clipped_data, widgets, shown>>

\* the user moves the slider of widget w to `plane`: display_slice(plane) runs
SliderEvent(w, plane) ==
    /\ shown' = display_slice(w, widgets[w].data, plane)
    /\ UNCHANGED <<pc, data, original_spacing, rescaled_spacing, spacing, printed,
                   gamma_low, gamma_high, equalized_data, vrange, clipped_data, widgets>>

Slide ==
    \E w \in DOMAIN widgets : \E plane \in widgets[w].lo .. widgets[w].hi :
        SliderEvent(w, plane)

Script ==
    \/ Load \/ Spacing \/ TryImshow \/ ShowPlanes \/ MontageData \/ ExploreData
    \/ Gamma \/ Equalize \/ MontageEqualized \/ ExploreEqualized \/ PlotCdf
    \/ Clip \/ MontageClipped \/ Plotly \/ Finish

Next == Script \/ Slide

Spec == Init /\ [][Next]_vars

(***************************************************************************)
(* The transforms and the montage on every small input array               *)
(***************************************************************************)
\* every array of up to MaxLen planes
FullArrays ==
    UNION {{MkArr(<<n, 1, 1>>, f) : f \in [0 .. n - 1 -> Levels]} : n \in 1 .. MaxLen}
\* longer arrays whose even and odd planes differ
StripedArrays ==
    UNION {{MkArr(<<n, 1, 1>>, [p \in 0 .. n - 1 |-> IF p % 2 = 0 THEN a ELSE b]) :
                a, b \in Levels} : n \in MaxLen + 1 .. MaxPlanes}
InputArrays == FullArrays \cup StripedArrays

PureInit ==
    /\ pc = "transforms"
    /\ data \in InputArrays
    /\ original_spacing = <<>>
    /\ rescaled_spacing = <<>>
    /\ spacing = <<>>
    /\ printed = <<>>
    /\ gamma_low = NoArr
    /\ gamma_high = NoArr
    /\ equalized_data = NoArr
    /\ vrange = <<>>
    /\ clipped_data = NoArr
    /\ widgets = <<>>
    /\ shown = NoFig

ApplyGamma ==
    /\ ~IsArr(gamma_low)
    /\ StmtGamma
    /\ UNCHANGED <<pc, data, original_spacing, rescaled_spacing, spacing, printed,
                   equalized_data, vrange, clipped_data, widgets, shown>>

ApplyEqualize ==
    /\ ~IsArr(equalized_data)
    /\ StmtEqualize
    /\ UNCHANGED <<pc, data, original_spacing, rescaled_spacing, spacing, printed,
                   gamma_low, gamma_high, vrange, clipped_data, widgets, shown>>

ApplyClip ==
    /\ ~IsArr(clipped_data)
    /\ StmtClip
    /\ UNCHANGED <<pc, data, original_spacing, rescaled_spacing, spacing, printed,
                   gamma_low, gamma_high, equalized_data, widgets, shown>>

ApplyDisplay ==
    /\ \E step \in 1 .. MaxStep : display(data, step)
    /\ UNCHANGED <<pc, data, original_spacing, rescaled_spacing, spacing, printed,
                   gamma_low, gamma_high, equalized_data, vrange, clipped_data, widgets>>

PureNext == ApplyGamma \/ ApplyEqualize \/ ApplyClip \/ ApplyDisplay

PureSpec == PureInit /\ [][PureNext]_vars

(***************************************************************************)
(* Properties                                                              *)
(***************************************************************************)
RatLe(a, b) == a[1] * b[2] <= b[1] * a[2]
RatLt(a, b) == a[1] * b[2] < b[1] * a[2]
Range(im) == ArrMax(im) - ArrMin(im)
InvalidShapePrinted ==
    \E i \in DOMAIN printed : printed[i] = [what |-> "Invalid shape", value |-> data.shape]

\* the statements of the script in the order they run
Statements == <<"load", "spacing", "try_imshow", "planes", "montage", "explore",
                "gamma", "equalize", "montage_eq", "explore_eq", "cdf", "clip",
                "montage_clip", "plotly", "show", "done">>

\* C1: when ax.imshow(data) raises TypeError on the 3D array, the error is
\* caught and its message printed, and execution continues: the script never
\* dies of an exception, and every statement it runs hands over to the very
\* next one, from the try statement down to the final statement.
C1_CaughtAndContinues ==
    /\ [](pc # "error")
    /\ []((pc \notin {"load", "spacing", "try_imshow"}
           /\ ImshowRaises(data.shape) = "TypeError") => InvalidShapePrinted)
    /\ [][pc' # pc =>
            \E i \in 1 .. Len(Statements) - 1 :
                pc = Statements[i] /\ pc' = Statements[i + 1]]_vars

C1_Witness == pc = "done" /\ InvalidShapePrinted /\ IsArr(clipped_data)

\* C2: once loaded, data never changes; every transform result is the
\* transform of data itself (not of another result) and has data's shape.
C2_DataImmutable ==
    /\ [][IsArr(data) => data' = data]_vars
    /\ [](IsArr(gamma_low) =>
            /\ gamma_low = adjust_gamma(data, gamma_low_val)
            /\ gamma_high = adjust_gamma(data, gamma_high_val)
            /\ gamma_low.shape = data.shape
            /\ gamma_high.shape = data.shape)
    /\ [](IsArr(equalized_data) =>
            /\ equalized_data = equalize_hist(data)
            /\ equalized_data.shape = data.shape)
    /\ [](IsArr(clipped_data) =>
            /\ clipped_data = rescale_intensity(data, <<percentile(data, clip_q[1]),
                                                        percentile(data, clip_q[2])>>)
            /\ clipped_data.shape = data.shape)

C2_Witness ==
    /\ pc = "done"
    /\ IsArr(clipped_data)
    /\ gamma_low # data
    /\ equalized_data # data
    /\ clipped_data # data

\* C3 as stated: no pixel of gamma_low or gamma_high is below the minimum or
\* above the maximum intensity of data.
C3_WithinDataRange ==
    IsArr(gamma_low) =>
        \A p \in Planes(data) :
            /\ ArrMin(data) <= gamma_low.pix[p] /\ gamma_low.pix[p] <= ArrMax(data)
            /\ ArrMin(data) <= gamma_high.pix[p] /\ gamma_high.pix[p] <= ArrMax(data)

\* C3 amended: every pixel of gamma_low and gamma_high lies in [0, 1]; gamma
\* 0.5 never darkens a pixel and gamma 1.5 never brightens one.
C3_WithinUnitRange ==
    IsArr(gamma_low) =>
        \A p \in Planes(data) :
            /\ data.pix[p] <= gamma_low.pix[p] /\ gamma_low.pix[p] <= Scale
            /\ 0 <= gamma_high.pix[p] /\ gamma_high.pix[p] <= data.pix[p]

C3_Witness ==
    /\ IsArr(gamma_low)
    /\ \E p \in Planes(data) : gamma_low.pix[p] > ArrMax(data)
    /\ \E p \in Planes(data) : gamma_high.pix[p] < ArrMin(data)

\* C4 as stated: the dynamic range of clipped_data is smaller than that of data.
C4_RangeReduced ==
    IsArr(clipped_data) => Range(clipped_data) < Range(data)

\* C4 amended: the percentile bounds lie inside the data's range with
\* vmin <= vmax; when vmin < vmax the output spans the whole float range
\* [0, 1], so its dynamic range is 1 and never smaller than the input's; when
\* vmin = vmax the output is constant.
C4_RangeStretched ==
    IsArr(clipped_data) =>
        /\ RatLe(<<ArrMin(data), 1>>, vrange[1])
        /\ RatLe(vrange[1], vrange[2])
        /\ RatLe(vrange[2], <<ArrMax(data), 1>>)
        /\ RatLt(vrange[1], vrange[2]) =>
              /\ ArrMin(clipped_data) = 0
              /\ ArrMax(clipped_data) = Scale
              /\ Range(clipped_data) >= Range(data)
        /\ RatEq(vrange[1], vrange[2]) => Range(clipped_data) = 0

C4_Witness ==
    /\ IsArr(clipped_data)
    /\ RatLt(vrange[1], vrange[2])
    /\ Range(data) < Scale
    /\ Range(clipped_data) = Scale

\* the largest distance, over the intensity bins 0..Scale, between the
\* cumulative distribution of im and the uniform one, times size * Scale
CdfDeviation(im) ==
    LET n == Cardinality(Planes(im))
        dev == [v \in Levels |-> Abs(CountLe(im, v) * Scale - v * n)]
    IN  CHOOSE d \in {dev[v] : v \in Levels} : \A v \in Levels : dev[v] <= d

\* C5 as stated: the cumulative distribution of equalized_data is no farther
\* from the uniform one than that of data.
C5_CloserToUniform ==
    IsArr(equalized_data) => CdfDeviation(equalized_data) <= CdfDeviation(data)

\* C5 amended: equalize_hist remaps intensities through the input's
\* cumulative distribution: the output lies in [0, 1], keeps the order of
\* the pixels' intensities, and maps the brightest pixel of an image that is
\* not constant to 1.
C5_MonotoneRemap ==
    IsArr(equalized_data) =>
        /\ equalized_data.shape = data.shape
        /\ \A p \in Planes(data) :
              /\ 0 <= equalized_data.pix[p] /\ equalized_data.pix[p] <= Scale
              /\ (data.pix[p] = ArrMax(data) /\ ArrMin(data) < ArrMax(data))
                    => equalized_data.pix[p] = Scale
        /\ \A p, q \in Planes(data) :
              data.pix[p] <= data.pix[q] => equalized_data.pix[p] <= equalized_data.pix[q]

C5_Witness ==
    /\ IsArr(equalized_data)
    /\ ArrMin(data) < ArrMax(data)
    /\ CdfDeviation(equalized_data) > CdfDeviation(data)

\* C6: the three spacings are strictly positive 3-vectors; rescaled_spacing
\* is original_spacing times (1, 4, 4); the normalized spacing is 1 along
\* rows and columns and rescaled_spacing[0] / rescaled_spacing[2] = 290/260
\* along planes.
C6_SpacingNormalized ==
    spacing # <<>> =>
        /\ Len(original_spacing) = 3 /\ Len(rescaled_spacing) = 3 /\ Len(spacing) = 3
        /\ \A i \in 1 .. 3 :
              /\ RatPos(original_spacing[i])
              /\ RatPos(rescaled_spacing[i])
              /\ RatPos(spacing[i])
        /\ RatEq(rescaled_spacing[1], original_spacing[1])
        /\ RatEq(rescaled_spacing[2], <<4 * original_spacing[2][1], original_spacing[2][2]>>)
        /\ RatEq(rescaled_spacing[3], <<4 * original_spacing[3][1], original_spacing[3][2]>>)
        /\ spacing[2] = <<1, 1>>
        /\ spacing[3] = <<1, 1>>
        /\ RatEq(spacing[1], <<rescaled_spacing[1][1] * rescaled_spacing[3][2],
                               rescaled_spacing[1][2] * rescaled_spacing[3][1]>>)
        /\ RatEq(spacing[1], <<290, 260>>)

C6_Witness == pc = "done" /\ spacing # <<>> /\ RatLt(<<1, 1>>, spacing[1])

\* C7: a slider event changes no array, and the plane it shows is plane
\* `plane` of the array its widget was made for, whatever was shown before.
C7_SliderIndependent ==
    /\ [][pc' = pc =>
            /\ data' = data
            /\ gamma_low' = gamma_low
            /\ gamma_high' = gamma_high
            /\ equalized_data' = equalized_data
            /\ clipped_data' = clipped_data
            /\ widgets' = widgets
            /\ shown'.kind = "slice"
            /\ shown'.widget \in DOMAIN widgets
            /\ shown'.image = widgets[shown'.widget].data.pix[shown'.plane]]_vars
    /\ [](\A w \in DOMAIN widgets :
             widgets[w].data = IF w = 1 THEN data ELSE equalized_data)

C7_Witness ==
    /\ shown.kind = "slice"
    /\ shown.widget = 2
    /\ shown.plane = 7
    /\ shown.image # widgets[2].data.pix[InitialPlane]

\* C8: display(im3d, step) shows exactly the planes 0, step, 2*step, ... below
\* len(im3d), in this order, ceil(len(im3d) / step) of them; with step 2 no
\* plane of odd index is shown.
C8_MontagePlanes ==
    shown.kind = "montage" =>
        LET n == Len3(data)
            step == shown.step
        IN  /\ Len(shown.tiles) = (n + step - 1) \div step
            /\ \A i \in DOMAIN shown.tiles :
                  /\ shown.tiles[i].plane = (i - 1) * step
                  /\ shown.tiles[i].plane < n
                  /\ shown.tiles[i].image = data.pix[(i - 1) * step]
                  /\ step = DefaultStep => shown.tiles[i].plane % 2 = 0

C8_Witness ==
    /\ shown.kind = "montage"
    /\ shown.step = 2
    /\ Len3(data) = MaxPlanes
    /\ Len(shown.tiles) >= 3
    /\ data.pix[0] # data.pix[1]

\* C9: every slider made by explore_slices ranges over 0..N-1 with N the
\* length of its array, so every plane it can select is a valid index, and
\* the initial plane 34 lies in this range (N >= 35) for both arrays.
C9_SliderInBounds ==
    /\ shown.kind # "error"
    /\ \A w \in DOMAIN widgets :
          LET N == Len3(widgets[w].data) IN
            /\ widgets[w].lo = 0
            /\ widgets[w].hi = N - 1
            /\ \A plane \in widgets[w].lo .. widgets[w].hi :
                  PyIndex(N, plane) = plane /\ plane \in Planes(widgets[w].data)
            /\ widgets[w].initial = InitialPlane
            /\ widgets[w].initial \in widgets[w].lo .. widgets[w].hi
            /\ N >= InitialPlane + 1

C9_Witness ==
    /\ Len(widgets) = 2
    /\ shown.kind = "slice"
    /\ shown.widget = 2
    /\ shown.plane = widgets[2].hi

CubeMax(cube, i) == CHOOSE m \in {c[i] : c \in cube} : \A c \in cube : c[i] <= m
CubeMin(cube, i) == CHOOSE m \in {c[i] : c \in cube} : \A c \in cube : c[i] >= m

\* C10: the marker of a displayed slice lies in the plane x = i of the
\* selected slice, has the cube's row and column extent, and lies within
\* the cube spanned by data.shape.
C10_MarkerInCube ==
    shown.kind = "slice" =>
        /\ shown.cube = {<<a, b, c>> : a \in {0, data.shape[1]}, b \in {0, data.shape[2]},
                                       c \in {0, data.shape[3]}}
        /\ widgets[shown.widget].data.shape = data.shape
        /\ \A v \in shown.marker :
              /\ v[1] = shown.plane
              /\ \A i \in 1 .. 3 :
                    CubeMin(shown.cube, i) <= v[i] /\ v[i] <= CubeMax(shown.cube, i)
        /\ {<<v[2], v[3]>> : v \in shown.marker} =
              {CubeMin(shown.cube, 2), CubeMax(shown.cube, 2)}
                 \X {CubeMin(shown.cube, 3), CubeMax(shown.cube, 3)}

C10_Witness ==
    /\ shown.kind = "slice"
    /\ shown.widget = 2
    /\ shown.plane = DataShape[1] - 1
    /\ Cardinality(shown.marker) = 4

====
